---- MODULE Spec2Model ----
(***************************************************************************)
(* State-machine model of graph_rewiring.hh: the rewiring driver           *)
(* (graph_rewire), the edge-swap primitive (swap_edge), the block          *)
(* abstractions and the six rewiring strategies.                           *)
(*                                                                         *)
(* Vertices are 0..nverts-1, edge slots are 0..m-1.  An edge descriptor is *)
(* the pair <<s, t>> of its stored source and target; the graph is the bag *)
(* of its edge descriptors.  An EdgeRef (pair<size_t,bool>) is the pair    *)
(* <<slot, flipped>>.                                                      *)
(***************************************************************************)
EXTENDS Integers, Sequences, FiniteSets, TLC

VARIABLES
    directed,           \* is_directed::apply<Graph>: the graph type
    nverts,             \* number of vertices of g
    strategy,           \* the RewireStrategy template argument
    self_loops,         \* driver argument
    parallel_edges,     \* driver argument
    niter,              \* iter_sweep.first
    no_sweep,           \* iter_sweep.second
    persist,            \* get<0>(cache_verbose)
    cache,              \* get<1>(cache_verbose)
    blockdeg,           \* the BlockDeg argument: DegreeBlock or PropertyBlock(p)
    corr_prob,          \* the CorrProb functor (named member of CorrProbs)
    edges0,             \* the edges of g at entry, in boost::edges(g) order
    g,                  \* the graph: bag of edge descriptors
    edges,              \* vector<edge_t> edges: slot -> edge descriptor
    pcount,             \* size_t& pcount
    _vertices,          \* Erdos: vector of vertices; TradBlock: block -> vector
    _edges_by_target,   \* CorrelatedRewireStrategy::_edges_by_target
    _probs,             \* Probabilistic cache, Alias table: block pair -> double
    _sampler,           \* Alias: block -> (item -> weight); TradBlock: item -> weight
    _in_edges,          \* AliasProbabilisticRewireStrategy::_in_edges
    _out_edges,         \* AliasProbabilisticRewireStrategy::_out_edges
    _in_pos,            \* AliasProbabilisticRewireStrategy::_in_pos
    _out_pos,           \* AliasProbabilisticRewireStrategy::_out_pos
    pc,                 \* position of the driver: "start", "loop", "done", "aborted"
    iter,               \* the driver's loop variable i
    todo,               \* slots the random permutation of this sweep has not yielded yet
    cur,                \* slot of the do-while under way (a retry under persist), or -1
    last,               \* the last strategy invocation: slot, draw, result
    calls,              \* history: invocations of rewire(...) that returned (up to MaxCalls)
    fails,              \* history: those of them that returned false (up to MaxCalls)
    moves,              \* history: those of them that returned true
    visits              \* history: slot -> times its do-while was left

params == <<directed, nverts, strategy, self_loops, parallel_edges, niter,
            no_sweep, persist, cache, blockdeg, corr_prob, edges0>>
stratvars == <<_vertices, _edges_by_target, _probs, _sampler, _in_edges, _out_edges,
               _in_pos, _out_pos>>
hist == <<calls, fails, moves, visits>>
vars == <<params, g, edges, pcount, stratvars, pc, iter, todo, cur, last, hist>>

(***************************************************************************)
(* Bounds of the model.                                                    *)
(***************************************************************************)
MaxIter == 1        \* n_iter ranges over 0..MaxIter
MaxPcount == 1      \* the value pcount holds at entry is 0 or MaxPcount

(***************************************************************************)
(* Generic helpers.                                                        *)
(***************************************************************************)
Range(f) == {f[x] : x \in DOMAIN f}

RECURSIVE SetToSeq(_)
SetToSeq(S) ==
    IF S = {} THEN <<>>
    ELSE LET x == CHOOSE y \in S : \A z \in S : y <= z
         IN <<x>> \o SetToSeq(S \ {x})

\* std::vector::pop_back
pop_back(s) == SubSeq(s, 1, Len(s) - 1)
\* std::vector::back
back(s) == s[Len(s)]

\* unordered_map<K, vector<...>>::operator[] read: an absent key is an empty vector
\* F(v), with v computed once
Let(v, F(_)) == CHOOSE r \in {F(x) : x \in {v}} : TRUE

At(map, k) == IF k \in DOMAIN map THEN map[k] ELSE <<>>
\* unordered_map::operator[] write
Put(map, k, v) == [x \in (DOMAIN map) \cup {k} |-> IF x = k THEN v ELSE map[x]]

(***************************************************************************)
(* The graph library, as the core uses it.                                 *)
(***************************************************************************)
Vertices(n) == 0 .. (n - 1)
VertexPairs(n) == Vertices(n) \X Vertices(n)
Slots(es) == DOMAIN es
NumEdges(es) == Cardinality(DOMAIN es)

\* the graph holding exactly the descriptors of a table
EdgeBag(n, es) == [p \in VertexPairs(n) |-> Cardinality({k \in DOMAIN es : es[k] = p})]

remove_edge(e, gr) == [gr EXCEPT ![e] = IF @ > 0 THEN @ - 1 ELSE 0]
add_edge(s, t, gr) == [gr EXCEPT ![<<s, t>>] = @ + 1]

is_adjacent(u, v, gr) ==
    IF directed THEN gr[<<u, v>>] > 0
    ELSE gr[<<u, v>>] > 0 \/ gr[<<v, u>>] > 0

\* the number of stored edges from v to 0 .. k, and from 0 .. k to v
RECURSIVE OutTo(_, _, _)
OutTo(v, k, gr) == IF k < 0 THEN 0 ELSE gr[<<v, k>>] + OutTo(v, k - 1, gr)
RECURSIVE InFrom(_, _, _)
InFrom(v, k, gr) == IF k < 0 THEN 0 ELSE gr[<<k, v>>] + InFrom(v, k - 1, gr)

StoredOut(v, gr) == OutTo(v, nverts - 1, gr)
StoredIn(v, gr) == InFrom(v, nverts - 1, gr)

\* in_degreeS: 0 on an undirected graph
in_degreeS(v, gr) == IF directed THEN StoredIn(v, gr) ELSE 0
\* out_degree: on an undirected graph every incident edge end counts
out_degree(v, gr) == IF directed THEN StoredOut(v, gr) ELSE StoredOut(v, gr) + StoredIn(v, gr)

(***************************************************************************)
(* EdgeRef accessors (graph_rewiring.hh 41-63).                            *)
(***************************************************************************)
source(e, es) == IF e[2] THEN es[e[1]][2] ELSE es[e[1]][1]
target(e, es) == IF e[2] THEN es[e[1]][1] ELSE es[e[1]][2]


(***************************************************************************)
(* swap_edge (graph_rewiring.hh 68-131).                                   *)
(***************************************************************************)
\* (mutant) a check that finds the coast clear every time
parallel_check_target_never(e, te, es, gr) == FALSE

\* TRUE iff swapping the target of e with the target of te is found to clash
parallel_check_target(e, te, es, gr) ==
    LET s == es[e][1]
        t == es[e][2]
        nt == target(te, es)
        te_s == source(te, es)
    IN  is_adjacent(s, nt, gr) \/ is_adjacent(te_s, t, gr)

\* (mutant) a swap_target that leaves the target of te where it was
swap_target_keep_te(e, te, es, gr) ==
    IF e = te[1] THEN [edges |-> es, g |-> gr]
    ELSE
        LET ne == <<es[e][1], target(te, es)>>
            g3 == add_edge(ne[1], ne[2], remove_edge(es[te[1]], remove_edge(es[e], gr)))
        IN  [edges |-> [es EXCEPT ![e] = ne], g |-> add_edge(es[te[1]][1], es[te[1]][2], g3)]

\* (mutant) a swap_target that does not store the new edge of te in the table
swap_target_stale_slot(e, te, es, gr) ==
    IF e = te[1] THEN [edges |-> es, g |-> gr]
    ELSE
        LET ne == <<es[e][1], target(te, es)>>
            nte == IF ~te[2] THEN <<source(te, es), es[e][2]>> ELSE <<es[e][2], source(te, es)>>
            g3 == add_edge(ne[1], ne[2], remove_edge(es[te[1]], remove_edge(es[e], gr)))
        IN  [edges |-> [es EXCEPT ![e] = ne], g |-> add_edge(nte[1], nte[2], g3)]

\* (mutant) a swap_target that stores each new edge in the slot of the other
swap_target_crossed_slots(e, te, es, gr) ==
    IF e = te[1] THEN [edges |-> es, g |-> gr]
    ELSE
        LET ne == <<es[e][1], target(te, es)>>
            nte == IF ~te[2] THEN <<source(te, es), es[e][2]>> ELSE <<es[e][2], source(te, es)>>
            g3 == add_edge(ne[1], ne[2], remove_edge(es[te[1]], remove_edge(es[e], gr)))
        IN  [edges |-> [es EXCEPT ![e] = nte, ![te[1]] = ne], g |-> add_edge(nte[1], nte[2], g3)]

\* the edge table and the graph after swap_target(e, te, edges, edge_index, g)
swap_target(e, te, es, gr) ==
    IF e = te[1] THEN [edges |-> es, g |-> gr]
    ELSE
        LET s_e == es[e][1]
            t_e == es[e][2]
            s_te == source(te, es)
            t_te == target(te, es)
            g1 == remove_edge(es[e], gr)
            g2 == remove_edge(es[te[1]], g1)
            ne == <<s_e, t_te>>
            g3 == add_edge(s_e, t_te, g2)
            nte == IF ~te[2] THEN <<s_te, t_e>> ELSE <<t_e, s_te>>
            g4 == add_edge(nte[1], nte[2], g3)
        IN  [edges |-> [es EXCEPT ![e] = ne, ![te[1]] = nte], g |-> g4]

(***************************************************************************)
(* Doubles.  A double is a record: k is its class and, for a positive      *)
(* finite value, e its binary exponent (the value 2^e).                    *)
(***************************************************************************)
NaN == [k |-> "nan", e |-> 0]
Inf == [k |-> "inf", e |-> 0]
Neg == [k |-> "neg", e |-> 0]
Zero == [k |-> "zero", e |-> 0]
Pos(x) == [k |-> "pos", e |-> x]

\* numeric_limits<double>::min() is 2^DBL_MIN_EXP, the smallest normalized double;
\* the subnormal doubles go down to 2^(DBL_MIN_EXP - 52)
DBL_MIN_EXP == -1022
min_double == Pos(DBL_MIN_EXP)
denorm_min == Pos(DBL_MIN_EXP - 52)

\* a * b of two non-negative doubles; a product below the smallest denormal is 0
Mul(a, b) ==
    IF a.k = "zero" \/ b.k = "zero" THEN Zero
    ELSE IF a.k = "inf" \/ b.k = "inf" THEN Inf
    ELSE IF a.e + b.e < DBL_MIN_EXP - 52 THEN Zero
    ELSE IF a.e + b.e > 1023 THEN Inf
    ELSE Pos(a.e + b.e)

\* a >= b of two non-negative doubles
Geq(a, b) ==
    \/ b.k = "zero"
    \/ a.k = "inf"
    \/ a.k = "pos" /\ b.k = "pos" /\ a.e >= b.e

\* (mutant) a sanitization that lets an infinite value through
Sanitize_keeps_inf(p) ==
    LET q == IF p.k \in {"nan", "neg"} THEN Zero ELSE p
    IN  IF q.k = "zero" THEN min_double ELSE q

\* the sanitization of the Probabilistic and Alias strategies (563-568, 578-583, 694-699)
Sanitize(p) ==
    LET q == IF p.k \in {"nan", "inf", "neg"} THEN Zero ELSE p
    IN  IF q.k = "zero" THEN min_double ELSE q

\* the sanitization of the TradBlock strategy (880-882)
SanitizeTrad(p) == IF p.k \in {"nan", "inf", "neg"} THEN Zero ELSE p

\* the CorrProb functors the driver is called with
CorrProbs == {"one", "diag", "half", "nan_neg", "inf_tiny"}
CorrProb(bs, bt) ==
    CASE corr_prob = "one" -> Pos(0)
      [] corr_prob = "diag" -> IF bs = bt THEN Pos(0) ELSE Zero
      [] corr_prob = "half" -> IF bs = bt THEN Pos(0) ELSE Pos(-1)
      [] corr_prob = "nan_neg" -> IF bs = bt THEN NaN ELSE Neg
      [] corr_prob = "inf_tiny" -> IF bs = bt THEN Inf ELSE denorm_min

\* (mutant) an acceptance step that draws r against a whatever pi and pf are
Metropolis_always_draws(pi, pf) == {TRUE, FALSE}

\* The outcomes of the acceptance step given pi and pf: TRUE is "return ep",
\* FALSE is "reject".  With 0 < pf < pi both r > a and r <= a can be drawn.
Metropolis(pi, pf) ==
    IF Geq(pf, pi) THEN {TRUE}
    ELSE IF pf.k = "zero" THEN {FALSE}
    ELSE {TRUE, FALSE}

(***************************************************************************)
(* Block abstractions (153-185).                                           *)
(***************************************************************************)
DegreeBlock(v, gr) == <<in_degreeS(v, gr), out_degree(v, gr)>>
PropertyBlock(v) == blockdeg.p[v + 1]

get_block(v, gr) ==
    IF blockdeg.kind = "DegreeBlock" THEN DegreeBlock(v, gr) ELSE PropertyBlock(v)

\* deg_set of the constructors: the blocks of the end points of the edges
deg_set(es, gr) ==
    {get_block(es[k][1], gr) : k \in DOMAIN es} \cup {get_block(es[k][2], gr) : k \in DOMAIN es}

\* Sampler<T>::sample: an item of positive weight
sample(w) ==
    IF \E x \in DOMAIN w : w[x].k = "pos" THEN {x \in DOMAIN w : w[x].k = "pos"}
    ELSE DOMAIN w


(***************************************************************************)
(* The state a strategy invocation works on, and what it returns: the edge *)
(* table, the graph, the Alias buckets, the result (success), the draw     *)
(* (et), why it ended (cause), and whether it ran into undefined behaviour *)
(* (ub).                                                                   *)
(***************************************************************************)
Here ==
    [edges |-> edges, g |-> g, in_edges |-> _in_edges, out_edges |-> _out_edges,
     in_pos |-> _in_pos, out_pos |-> _out_pos,
     success |-> FALSE, et |-> <<>>, cause |-> "none", ub |-> FALSE]

Ret(S, ok, et, cause) == [S EXCEPT !.success = ok, !.et = et, !.cause = cause]

(***************************************************************************)
(* update_edge.  Random, Correlated and Probabilistic define it empty      *)
(* (439, 503, 634); Alias maintains its buckets (799-828).                 *)
(***************************************************************************)
update_edge_Alias(ei, insert, S) ==
    IF insert THEN
        LET d == get_block(S.edges[ei][2], S.g)
            ie == Put(S.in_edges, d, Append(At(S.in_edges, d), ei))
            S1 == [S EXCEPT !.in_edges = ie, !.in_pos[ei] = Len(ie[d]) - 1]
        IN  IF directed THEN S1
            ELSE
                LET d2 == get_block(S.edges[ei][1], S.g)
                    oe == Put(S.out_edges, d2, Append(At(S.out_edges, d2), ei))
                IN  [S1 EXCEPT !.out_edges = oe, !.out_pos[ei] = Len(oe[d2]) - 1]
    ELSE
        IF directed THEN S
        ELSE
            LET d == get_block(S.edges[ei][2], S.g)
                j == S.in_pos[ei]
                lst == At(S.in_edges, d)
            IN  IF j >= Len(lst)
                THEN [S EXCEPT !.ub = TRUE]  \* back() of an empty vector, or a write past the end
                ELSE
                    LET b == back(lst)
                    IN  [S EXCEPT !.in_pos[b] = j,
                                  !.in_edges = Put(S.in_edges, d, pop_back([lst EXCEPT ![j + 1] = b]))]

update_edge(ei, insert, S) ==
    IF strategy = "alias" THEN update_edge_Alias(ei, insert, S) ELSE S

\* (mutant) an operator() without the self-loop check of 359-364
RewireStrategyBase_no_self_loop_check(ei, et, S) ==
    IF ~parallel_edges /\ et[1] # ei /\ parallel_check_target(ei, et, S.edges, S.g)
    THEN Ret(S, FALSE, et, "parallel")
    ELSE IF ei # et[1]
    THEN
        Let(swap_target(ei, et, S.edges, S.g), LAMBDA sw :
            Ret([S EXCEPT !.edges = sw.edges, !.g = sw.g], TRUE, et, "swap"))
    ELSE Ret(S, FALSE, et, "self_swap")

(***************************************************************************)
(* RewireStrategyBase::operator() (349-389), given the target edge et that *)
(* get_target_edge returned.                                               *)
(***************************************************************************)
RewireStrategyBase(ei, et, S) ==
    IF ~self_loops /\ (S.edges[ei][1] = target(et, S.edges) \/ S.edges[ei][2] = source(et, S.edges))
    THEN Ret(S, FALSE, et, "self_loop")
    ELSE IF ~parallel_edges /\ et[1] # ei /\ parallel_check_target(ei, et, S.edges, S.g)
    THEN Ret(S, FALSE, et, "parallel")
    ELSE IF ei # et[1]
    THEN
        Let(update_edge(ei, FALSE, S), LAMBDA S1 :
        Let(update_edge(et[1], FALSE, S1), LAMBDA S2 :
            IF S2.ub THEN Ret(S2, FALSE, et, "ub")
            ELSE
                Let(swap_target(ei, et, S2.edges, S2.g), LAMBDA sw :
                Let(update_edge(ei, TRUE, [S2 EXCEPT !.edges = sw.edges, !.g = sw.g]), LAMBDA S4 :
                Let(update_edge(et[1], TRUE, S4), LAMBDA S5 :
                    Ret(S5, TRUE, et, "swap"))))))
    ELSE Ret(S, FALSE, et, "self_swap")

(***************************************************************************)
(* ErdosRewireStrategy (278-330).                                          *)
(***************************************************************************)
ErdosRewireStrategy(n) == [k \in 1 .. n |-> k - 1]

\* the pairs the while loop can draw: indices into _vertices
ErdosDraws == {<<_vertices[a], _vertices[b]>> : a, b \in DOMAIN _vertices}

\* a draw the loop exits with
ErdosExit(st) == ~(st[1] = st[2] /\ ~self_loops)

\* (mutant) an operator() that removes the edge of the slot before it looks for a
\* parallel edge
ErdosRewire_removes_first(ei, st, S) ==
    IF ~parallel_edges /\ is_adjacent(st[1], st[2], S.g)
    THEN Ret([S EXCEPT !.g = remove_edge(S.edges[ei], S.g)], FALSE, st, "parallel")
    ELSE Ret([S EXCEPT !.g = add_edge(st[1], st[2], remove_edge(S.edges[ei], S.g)),
                       !.edges[ei] = st],
             TRUE, st, "replace")

\* operator() after the loop left with s, t
ErdosRewire(ei, st, S) ==
    IF ~parallel_edges /\ is_adjacent(st[1], st[2], S.g)
    THEN Ret(S, FALSE, st, "parallel")
    ELSE Ret([S EXCEPT !.g = add_edge(st[1], st[2], remove_edge(S.edges[ei], S.g)),
                       !.edges[ei] = st],
             TRUE, st, "replace")

(***************************************************************************)
(* RandomRewireStrategy (400-444).                                         *)
(***************************************************************************)
Coins == IF directed THEN {FALSE} ELSE {FALSE, TRUE}

get_target_edge_Random(ei, S) == {<<k, f>> : k \in DOMAIN S.edges, f \in Coins}

(***************************************************************************)
(* CorrelatedRewireStrategy (449-515).                                     *)
(***************************************************************************)
\* (mutant) a constructor that files the flipped form under the target's key too
RECURSIVE CorrelatedRewireStrategy_one_key(_, _, _, _)
CorrelatedRewireStrategy_one_key(k, es, gr, acc) ==
    IF k \notin DOMAIN es THEN acc
    ELSE
        LET tdeg == DegreeBlock(es[k][2], gr)
            a1 == Put(acc, tdeg, Append(At(acc, tdeg), <<k, FALSE>>))
            a2 == IF directed THEN a1
                  ELSE Put(a1, tdeg, Append(At(a1, tdeg), <<k, TRUE>>))
        IN  CorrelatedRewireStrategy_one_key(k + 1, es, gr, a2)

RECURSIVE CorrelatedRewireStrategy(_, _, _, _)
CorrelatedRewireStrategy(k, es, gr, acc) ==
    IF k \notin DOMAIN es THEN acc
    ELSE
        LET tdeg == DegreeBlock(es[k][2], gr)
            a1 == Put(acc, tdeg, Append(At(acc, tdeg), <<k, FALSE>>))
            sdeg == DegreeBlock(es[k][1], gr)
            a2 == IF directed THEN a1
                  ELSE Put(a1, sdeg, Append(At(a1, sdeg), <<k, TRUE>>))
        IN  CorrelatedRewireStrategy(k + 1, es, gr, a2)

\* (mutant) a get_target_edge that samples all the edges, as Random does
get_target_edge_Correlated_any(ei, S) == {<<k, f>> : k \in DOMAIN S.edges, f \in Coins}

get_target_edge_Correlated(ei, S) ==
    Range(At(_edges_by_target, DegreeBlock(S.edges[ei][2], S.g)))

(***************************************************************************)
(* ProbabilisticRewireStrategy (518-643).                                  *)
(***************************************************************************)
\* (mutant) a constructor that enumerates the blocks of the sources only
ProbabilisticRewireStrategy_sources_only(es, gr) ==
    IF cache
    THEN [bp \in {get_block(es[k][1], gr) : k \in DOMAIN es}
                    \X {get_block(es[k][1], gr) : k \in DOMAIN es}
             |-> Sanitize(CorrProb(bp[1], bp[2]))]
    ELSE <<>>

ProbabilisticRewireStrategy(es, gr) ==
    IF cache
    THEN [bp \in deg_set(es, gr) \X deg_set(es, gr) |-> Sanitize(CorrProb(bp[1], bp[2]))]
    ELSE <<>>

\* unordered_map<pair, double>::operator[]: an absent key reads 0.0
ProbsAt(bp) == IF bp \in DOMAIN _probs THEN _probs[bp] ELSE Zero

get_prob_Probabilistic(s_deg, t_deg) ==
    IF DOMAIN _probs = {} THEN Sanitize(CorrProb(s_deg, t_deg))
    ELSE ProbsAt(<<s_deg, t_deg>>)

get_prob_Alias(s_deg, t_deg) == ProbsAt(<<s_deg, t_deg>>)

get_prob(s_deg, t_deg) ==
    IF strategy = "alias" THEN get_prob_Alias(s_deg, t_deg)
    ELSE get_prob_Probabilistic(s_deg, t_deg)

\* the acceptance step shared by Probabilistic (612-631) and Alias (777-796):
\* the EdgeRefs get_target_edge can return for candidate ep
Accept(ei, ep, S) ==
    LET s_deg == get_block(S.edges[ei][1], S.g)
        t_deg == get_block(S.edges[ei][2], S.g)
        ep_s_deg == get_block(source(ep, S.edges), S.g)
        ep_t_deg == get_block(target(ep, S.edges), S.g)
        pi == Mul(get_prob(s_deg, t_deg), get_prob(ep_s_deg, ep_t_deg))
        pf == Mul(get_prob(s_deg, ep_t_deg), get_prob(ep_s_deg, t_deg))
    IN  {IF a THEN ep ELSE <<ei, FALSE>> : a \in Metropolis(pi, pf)}

get_target_edge_Probabilistic(ei, S) ==
    UNION {Accept(ei, <<epi, f>>, S) : epi \in DOMAIN S.edges, f \in Coins}

(***************************************************************************)
(* AliasProbabilisticRewireStrategy (646-845).                             *)
(***************************************************************************)
AliasProbs(es, gr) ==
    [bp \in deg_set(es, gr) \X deg_set(es, gr) |-> Sanitize(CorrProb(bp[1], bp[2]))]

AliasSampler(es, gr) ==
    [bs \in deg_set(es, gr) |-> [bt \in deg_set(es, gr) |-> Sanitize(CorrProb(bs, bt))]]

\* the loop of 710-724 from slot k on
RECURSIVE AliasBuckets(_, _)
AliasBuckets(k, S) ==
    IF k \notin DOMAIN S.edges THEN S
    ELSE Let(update_edge_Alias(k, TRUE, S), LAMBDA S1 : AliasBuckets(k + 1, S1))

AliasRewireStrategy(es, gr) ==
    AliasBuckets(0, [edges |-> es, g |-> gr, in_edges |-> <<>>, out_edges |-> <<>>,
                     in_pos |-> [k \in DOMAIN es |-> 0],
                     out_pos |-> IF directed THEN <<>> ELSE [k \in DOMAIN es |-> 0],
                     success |-> FALSE, et |-> <<>>, cause |-> "none", ub |-> FALSE])

\* the marker of a draw from an empty bucket (uniform_int over 0..-1, then a read
\* past the end of the vector)
UBRef == <<-1, FALSE>>

\* the candidates ep of 749-772 for a sampled block nt
AliasCandidates(nt, S) ==
    LET ies == At(S.in_edges, nt)
        oes == At(S.out_edges, nt)
        in_ok == directed \/ Len(ies) > 0          \* the coin can come up true
        out_ok == ~directed /\ (Len(oes) > 0 \/ Len(ies) = 0)   \* ... or false
    IN  (IF in_ok THEN (IF Len(ies) > 0 THEN {<<i, FALSE>> : i \in Range(ies)} ELSE {UBRef})
         ELSE {})
        \cup
        (IF out_ok THEN (IF Len(oes) > 0 THEN {<<i, TRUE>> : i \in Range(oes)} ELSE {UBRef})
         ELSE {})

get_target_edge_Alias(ei, S) ==
    LET s_deg == get_block(S.edges[ei][1], S.g)
    IN  IF s_deg \notin DOMAIN _sampler THEN {UBRef}   \* a null Sampler*
        ELSE UNION {
                UNION {IF ep = UBRef THEN {UBRef} ELSE Accept(ei, ep, S)
                       : ep \in AliasCandidates(nt, S)}
                : nt \in sample(_sampler[s_deg])}

(***************************************************************************)
(* TradBlockRewireStrategy (848-937).                                      *)
(***************************************************************************)
TradBlocks(n, gr) == {get_block(v, gr) : v \in Vertices(n)}

TradVertices(n, gr) ==
    [d \in TradBlocks(n, gr) |-> SetToSeq({v \in Vertices(n) : get_block(v, gr) = d})]

TradSampler(n, gr) ==
    [bp \in TradBlocks(n, gr) \X TradBlocks(n, gr) |-> SanitizeTrad(CorrProb(bp[1], bp[2]))]

\* the vertex pairs 898-907 can draw
TradDraws ==
    UNION {Range(_vertices[deg[1]]) \X Range(_vertices[deg[2]]) : deg \in sample(_sampler)}

TradRewire(ei, st, S) ==
    IF ~self_loops /\ st[1] = st[2]
    THEN Ret(S, FALSE, st, "self_loop")
    ELSE IF ~parallel_edges /\ is_adjacent(st[1], st[2], S.g)
    THEN Ret(S, FALSE, st, "parallel")
    ELSE Ret([S EXCEPT !.g = add_edge(st[1], st[2], remove_edge(S.edges[ei], S.g)),
                       !.edges[ei] = st],
             TRUE, st, "replace")


\* what get_target_edge of Alias can end with: an EdgeRef, or UBRef when the draw
\* from an empty bucket faults; when it does not fault the slot it reads is arbitrary
AliasOutcomes(ei, S) ==
    LET ets == get_target_edge_Alias(ei, S)
    IN  IF UBRef \in ets
        THEN ets \cup UNION {Accept(ei, <<k, f>>, S) : k \in DOMAIN S.edges, f \in Coins}
        ELSE ets

(***************************************************************************)
(* The inputs of a call.                                                   *)
(***************************************************************************)
Strategies == {"erdos", "random", "correlated", "probabilistic", "alias", "trad"}

\* the strategies whose constructor names its CorrProb and its BlockDeg argument;
\* Correlated is handed a BlockDeg as well
UsesCorrProb == {"probabilistic", "alias", "trad"}
UsesBlockDeg == {"correlated", "probabilistic", "alias", "trad"}

ToTable(sq) == [k \in 0 .. (Len(sq) - 1) |-> sq[k + 1]]

InputGraphs ==
    { [n |-> 1, es |-> << <<0, 0>> >>],
      [n |-> 2, es |-> << >>],
      [n |-> 2, es |-> << <<0, 1>> >>],
      [n |-> 2, es |-> << <<0, 1>>, <<1, 0>> >>],
      [n |-> 2, es |-> << <<0, 0>>, <<1, 1>> >>],
      [n |-> 2, es |-> << <<0, 1>>, <<0, 1>> >>],
      [n |-> 3, es |-> << <<0, 0>>, <<1, 2>> >>],
      [n |-> 3, es |-> << <<0, 1>>, <<1, 2>> >>],
      [n |-> 3, es |-> << <<0, 1>>, <<1, 2>>, <<2, 0>> >>],
      [n |-> 4, es |-> << <<0, 1>>, <<2, 3>> >>] }

\* the property maps: two blocks, alternating over the vertices or splitting them
\* into a lower and an upper half
PropertyMaps(n) ==
    {[v \in 1 .. n |-> (v - 1) % 2], [v \in 1 .. n |-> IF 2 * v > n + 1 THEN 1 ELSE 0]}

\* Erdos and TradBlock draw vertex pairs and never read an edge but to replace it:
\* they are run on the inputs of at most 2 vertices.  The strategies
\* that keep per-block tables are run on the inputs of at most 2 edges.
InputGraphsOf(st) ==
    IF st \in {"erdos", "trad"}
    THEN {gi \in InputGraphs : gi.n <= 2}
    ELSE IF st = "random" THEN InputGraphs
    ELSE {gi \in InputGraphs : Len(gi.es) <= 2}

BlockDegs(n) ==
    {[kind |-> "DegreeBlock", p |-> <<>>]}
        \cup {[kind |-> "PropertyBlock", p |-> p] : p \in PropertyMaps(n)}

NoLast == [ei |-> -1, et |-> <<>>, success |-> FALSE, cause |-> "none"]

DefaultBlockDeg == [kind |-> "DegreeBlock", p |-> <<>>]

\* The calls explored are of two kinds.  In the first the driver's options vary
\* (n_iter, no_sweep, persist, the value pcount holds at entry) and the strategy is
\* handed the default DegreeBlock, no cache and the functor "half"; in the second
\* the strategy's arguments vary (BlockDeg, CorrProb, cache) and the driver makes
\* MaxIter sweeps without persistence.
DriverVariety ==
    /\ niter \in 0 .. MaxIter
    /\ no_sweep \in BOOLEAN
    /\ persist \in BOOLEAN
    /\ pcount \in {0, MaxPcount}
    /\ cache = FALSE
    /\ corr_prob = IF strategy \in UsesCorrProb THEN "half" ELSE "one"
    /\ blockdeg = DefaultBlockDeg

StrategyVariety ==
    /\ niter = MaxIter
    /\ no_sweep = FALSE
    /\ persist = FALSE
    /\ pcount = MaxPcount
    /\ cache \in (IF strategy = "probabilistic" THEN BOOLEAN ELSE {FALSE})
    /\ corr_prob \in (IF strategy \in UsesCorrProb THEN CorrProbs ELSE {"one"})
    /\ blockdeg \in (IF strategy \in UsesBlockDeg THEN BlockDegs(nverts) ELSE {DefaultBlockDeg})

Init ==
    /\ directed \in BOOLEAN
    /\ strategy \in Strategies
    /\ self_loops \in BOOLEAN
    /\ parallel_edges \in BOOLEAN
    /\ \E gi \in InputGraphsOf(strategy) :
        /\ nverts = gi.n
        /\ edges0 = ToTable(gi.es)
        /\ g = EdgeBag(gi.n, ToTable(gi.es))
    /\ DriverVariety \/ StrategyVariety
    /\ edges = <<>>
    /\ _vertices = <<>>
    /\ _edges_by_target = <<>>
    /\ _probs = <<>>
    /\ _sampler = <<>>
    /\ _in_edges = <<>>
    /\ _out_edges = <<>>
    /\ _in_pos = <<>>
    /\ _out_pos = <<>>
    /\ pc = "start"
    /\ iter = 0
    /\ todo = {}
    /\ cur = -1
    /\ last = NoLast
    /\ calls = 0
    /\ fails = 0
    /\ moves = 0
    /\ visits = [k \in DOMAIN edges0 |-> 0]

(***************************************************************************)
(* graph_rewire::operator() (196-260).                                     *)
(***************************************************************************)
\* (mutant) a driver that leaves pcount as it finds it
Construct_keeps_pcount ==
    /\ pc = "start"
    /\ edges' = edges0
    /\ pcount' = pcount
    /\ _vertices' = CASE strategy = "erdos" -> ErdosRewireStrategy(nverts)
                      [] strategy = "trad" -> TradVertices(nverts, g)
                      [] OTHER -> <<>>
    /\ _edges_by_target' = IF strategy = "correlated"
                           THEN CorrelatedRewireStrategy(0, edges0, g, <<>>) ELSE <<>>
    /\ _probs' = CASE strategy = "probabilistic" -> ProbabilisticRewireStrategy(edges0, g)
                   [] strategy = "alias" -> AliasProbs(edges0, g)
                   [] OTHER -> <<>>
    /\ _sampler' = CASE strategy = "alias" -> AliasSampler(edges0, g)
                     [] strategy = "trad" -> TradSampler(nverts, g)
                     [] OTHER -> <<>>
    /\ LET A == AliasRewireStrategy(edges0, g)
       IN  IF strategy = "alias"
           THEN /\ _in_edges' = A.in_edges
                /\ _out_edges' = A.out_edges
                /\ _in_pos' = A.in_pos
                /\ _out_pos' = A.out_pos
           ELSE UNCHANGED <<_in_edges, _out_edges, _in_pos, _out_pos>>
    /\ iter' = 0
    /\ IF niter = 0 \/ DOMAIN edges0 = {}
       THEN pc' = "done" /\ todo' = {}
       ELSE pc' = "loop" /\ todo' = DOMAIN edges0
    /\ UNCHANGED <<params, g, cur, last, hist>>

\* (mutant) a driver whose outer loop runs once before it tests i < niter
Construct_enters_loop ==
    /\ pc = "start"
    /\ edges' = edges0
    /\ pcount' = 0
    /\ _vertices' = CASE strategy = "erdos" -> ErdosRewireStrategy(nverts)
                      [] strategy = "trad" -> TradVertices(nverts, g)
                      [] OTHER -> <<>>
    /\ _edges_by_target' = IF strategy = "correlated"
                           THEN CorrelatedRewireStrategy(0, edges0, g, <<>>) ELSE <<>>
    /\ _probs' = CASE strategy = "probabilistic" -> ProbabilisticRewireStrategy(edges0, g)
                   [] strategy = "alias" -> AliasProbs(edges0, g)
                   [] OTHER -> <<>>
    /\ _sampler' = CASE strategy = "alias" -> AliasSampler(edges0, g)
                     [] strategy = "trad" -> TradSampler(nverts, g)
                     [] OTHER -> <<>>
    /\ LET A == AliasRewireStrategy(edges0, g)
       IN  IF strategy = "alias"
           THEN /\ _in_edges' = A.in_edges
                /\ _out_edges' = A.out_edges
                /\ _in_pos' = A.in_pos
                /\ _out_pos' = A.out_pos
           ELSE UNCHANGED <<_in_edges, _out_edges, _in_pos, _out_pos>>
    /\ iter' = 0
    /\ IF DOMAIN edges0 = {}
       THEN pc' = "done" /\ todo' = {}
       ELSE pc' = "loop" /\ todo' = DOMAIN edges0
    /\ UNCHANGED <<params, g, cur, last, hist>>

\* (mutant) a driver whose inner loop does not test ei != ei_end on entry
Construct_enters_sweep ==
    /\ pc = "start"
    /\ edges' = edges0
    /\ pcount' = 0
    /\ _vertices' = CASE strategy = "erdos" -> ErdosRewireStrategy(nverts)
                      [] strategy = "trad" -> TradVertices(nverts, g)
                      [] OTHER -> <<>>
    /\ _edges_by_target' = IF strategy = "correlated"
                           THEN CorrelatedRewireStrategy(0, edges0, g, <<>>) ELSE <<>>
    /\ _probs' = CASE strategy = "probabilistic" -> ProbabilisticRewireStrategy(edges0, g)
                   [] strategy = "alias" -> AliasProbs(edges0, g)
                   [] OTHER -> <<>>
    /\ _sampler' = CASE strategy = "alias" -> AliasSampler(edges0, g)
                     [] strategy = "trad" -> TradSampler(nverts, g)
                     [] OTHER -> <<>>
    /\ LET A == AliasRewireStrategy(edges0, g)
       IN  IF strategy = "alias"
           THEN /\ _in_edges' = A.in_edges
                /\ _out_edges' = A.out_edges
                /\ _in_pos' = A.in_pos
                /\ _out_pos' = A.out_pos
           ELSE UNCHANGED <<_in_edges, _out_edges, _in_pos, _out_pos>>
    /\ iter' = 0
    /\ IF niter = 0
       THEN pc' = "done" /\ todo' = {}
       ELSE pc' = "loop" /\ todo' = DOMAIN edges0
    /\ UNCHANGED <<params, g, cur, last, hist>>

\* 208-227: the snapshot of the edges, the strategy's constructor, pcount = 0;
\* then the loops are entered, which fall through when niter = 0 or m = 0
Construct ==
    /\ pc = "start"
    /\ edges' = edges0
    /\ pcount' = 0
    /\ _vertices' = CASE strategy = "erdos" -> ErdosRewireStrategy(nverts)
                      [] strategy = "trad" -> TradVertices(nverts, g)
                      [] OTHER -> <<>>
    /\ _edges_by_target' = IF strategy = "correlated"
                           THEN CorrelatedRewireStrategy(0, edges0, g, <<>>) ELSE <<>>
    /\ _probs' = CASE strategy = "probabilistic" -> ProbabilisticRewireStrategy(edges0, g)
                   [] strategy = "alias" -> AliasProbs(edges0, g)
                   [] OTHER -> <<>>
    /\ _sampler' = CASE strategy = "alias" -> AliasSampler(edges0, g)
                     [] strategy = "trad" -> TradSampler(nverts, g)
                     [] OTHER -> <<>>
    /\ LET A == AliasRewireStrategy(edges0, g)
       IN  IF strategy = "alias"
           THEN /\ _in_edges' = A.in_edges
                /\ _out_edges' = A.out_edges
                /\ _in_pos' = A.in_pos
                /\ _out_pos' = A.out_pos
           ELSE UNCHANGED <<_in_edges, _out_edges, _in_pos, _out_pos>>
    /\ iter' = 0
    /\ IF niter = 0 \/ DOMAIN edges0 = {}
       THEN pc' = "done" /\ todo' = {}
       ELSE pc' = "loop" /\ todo' = DOMAIN edges0
    /\ UNCHANGED <<params, g, cur, last, hist>>

\* (mutant) slots drawn with replacement instead of a permutation
Pick_with_replacement == IF cur # -1 THEN {cur} ELSE DOMAIN edges

\* *ei of the do-while: the slot under way, or the next one of the permutation
Pick == IF cur # -1 THEN {cur} ELSE todo

\* the record of an invocation that returned r; left: the do-while of its slot is
\* left with it.  The counts of invocations stop at MaxCalls, which a call
\* without persistence cannot reach.
MaxCalls == niter * Cardinality(DOMAIN edges0) + 1
Count(ei, r, left) ==
    IF r.ub THEN UNCHANGED hist ELSE
    /\ calls' = IF calls < MaxCalls THEN calls + 1 ELSE calls
    /\ fails' = IF ~r.success /\ fails < MaxCalls THEN fails + 1 ELSE fails
    /\ moves' = IF r.success THEN moves + 1 ELSE moves
    /\ visits' = IF left THEN [visits EXCEPT ![ei] = @ + 1] ELSE visits

\* (mutant) a driver that counts a failure and moves on even with persist set
Apply_gives_up(ei, r) ==
    /\ edges' = r.edges
    /\ g' = r.g
    /\ _in_edges' = r.in_edges
    /\ _out_edges' = r.out_edges
    /\ _in_pos' = r.in_pos
    /\ _out_pos' = r.out_pos
    /\ last' = [ei |-> ei, et |-> r.et, success |-> r.success, cause |-> r.cause]
    /\ Count(ei, r, TRUE)
    /\ pcount' = IF r.success THEN pcount ELSE pcount + 1
    /\ cur' = -1
    /\ IF no_sweep \/ todo \ {ei} = {}
       THEN /\ iter' = iter + 1
            /\ IF iter + 1 < niter
               THEN todo' = DOMAIN edges /\ pc' = pc
               ELSE todo' = {} /\ pc' = "done"
       ELSE todo' = todo \ {ei} /\ UNCHANGED <<iter, pc>>
    /\ UNCHANGED <<params, _vertices, _edges_by_target, _probs, _sampler>>

\* (mutant) a driver that counts every failed invocation, retried or not
Apply_counts_retries(ei, r) ==
    /\ edges' = r.edges
    /\ g' = r.g
    /\ _in_edges' = r.in_edges
    /\ _out_edges' = r.out_edges
    /\ _in_pos' = r.in_pos
    /\ _out_pos' = r.out_pos
    /\ last' = [ei |-> ei, et |-> r.et, success |-> r.success, cause |-> r.cause]
    /\ Count(ei, r, ~(persist /\ ~r.success))
    /\ IF r.ub
       THEN pc' = "aborted" /\ UNCHANGED <<iter, todo, cur, pcount>>
       ELSE IF persist /\ ~r.success
       THEN cur' = ei /\ pcount' = pcount + 1 /\ UNCHANGED <<pc, iter, todo>>
       ELSE /\ pcount' = IF r.success THEN pcount ELSE pcount + 1
            /\ cur' = -1
            /\ IF no_sweep \/ todo \ {ei} = {}
               THEN /\ iter' = iter + 1
                    /\ IF iter + 1 < niter
                       THEN todo' = DOMAIN edges /\ pc' = pc
                       ELSE todo' = {} /\ pc' = "done"
               ELSE todo' = todo \ {ei} /\ UNCHANGED <<iter, pc>>
    /\ UNCHANGED <<params, _vertices, _edges_by_target, _probs, _sampler>>

\* (mutant) a driver that does not break out of the sweep when no_sweep is set
Apply_no_break(ei, r) ==
    /\ edges' = r.edges
    /\ g' = r.g
    /\ _in_edges' = r.in_edges
    /\ _out_edges' = r.out_edges
    /\ _in_pos' = r.in_pos
    /\ _out_pos' = r.out_pos
    /\ last' = [ei |-> ei, et |-> r.et, success |-> r.success, cause |-> r.cause]
    /\ Count(ei, r, ~(persist /\ ~r.success))
    /\ IF r.ub
       THEN pc' = "aborted" /\ UNCHANGED <<iter, todo, cur, pcount>>
       ELSE IF persist /\ ~r.success
       THEN cur' = ei /\ UNCHANGED <<pc, iter, todo, pcount>>
       ELSE /\ pcount' = IF r.success THEN pcount ELSE pcount + 1
            /\ cur' = -1
            /\ IF todo \ {ei} = {}
               THEN /\ iter' = iter + 1
                    /\ IF iter + 1 < niter
                       THEN todo' = DOMAIN edges /\ pc' = pc
                       ELSE todo' = {} /\ pc' = "done"
               ELSE todo' = todo \ {ei} /\ UNCHANGED <<iter, pc>>
    /\ UNCHANGED <<params, _vertices, _edges_by_target, _probs, _sampler>>

\* 244-256 after rewire(*ei, ...) returned r
Apply(ei, r) ==
    /\ edges' = r.edges
    /\ g' = r.g
    /\ _in_edges' = r.in_edges
    /\ _out_edges' = r.out_edges
    /\ _in_pos' = r.in_pos
    /\ _out_pos' = r.out_pos
    /\ last' = [ei |-> ei, et |-> r.et, success |-> r.success, cause |-> r.cause]
    /\ Count(ei, r, ~(persist /\ ~r.success))
    /\ IF r.ub
       THEN pc' = "aborted" /\ UNCHANGED <<iter, todo, cur, pcount>>
       ELSE IF persist /\ ~r.success
       THEN cur' = ei /\ UNCHANGED <<pc, iter, todo, pcount>>
       ELSE /\ pcount' = IF r.success THEN pcount ELSE pcount + 1
            /\ cur' = -1
            /\ IF no_sweep \/ todo \ {ei} = {}
               THEN /\ iter' = iter + 1
                    /\ IF iter + 1 < niter
                       THEN todo' = DOMAIN edges /\ pc' = pc
                       ELSE todo' = {} /\ pc' = "done"
               ELSE todo' = todo \ {ei} /\ UNCHANGED <<iter, pc>>
    /\ UNCHANGED <<params, _vertices, _edges_by_target, _probs, _sampler>>

\* the invocation faults
Abort(ei) ==
    /\ pc' = "aborted"
    /\ last' = [ei |-> ei, et |-> UBRef, success |-> FALSE, cause |-> "ub"]
    /\ UNCHANGED <<params, g, edges, pcount, stratvars, iter, todo, cur, hist>>

\* one turn of the while loop of 302-311 that draws s = t and goes round again.
\* A turn changes the random source and the locals s, t only: when every draw is
\* s = t the loop runs for ever and the state shown here stays as it is.
ErdosResample ==
    /\ pc = "loop" /\ strategy = "erdos"
    /\ \E ei \in Pick, st \in ErdosDraws :
        /\ ~ErdosExit(st)
        /\ cur' = ei
        /\ last' = [ei |-> ei, et |-> st, success |-> FALSE, cause |-> "resample"]
    /\ UNCHANGED <<params, g, edges, pcount, stratvars, pc, iter, todo, hist>>

Erdos ==
    /\ pc = "loop" /\ strategy = "erdos"
    /\ \E ei \in Pick, st \in ErdosDraws :
        /\ ErdosExit(st)
        /\ \E r \in {ErdosRewire(ei, st, Here)} : Apply(ei, r)

Random ==
    /\ pc = "loop" /\ strategy = "random"
    /\ \E ei \in Pick : \E S \in {Here} : \E et \in get_target_edge_Random(ei, S) :
        \E r \in {RewireStrategyBase(ei, et, S)} : Apply(ei, r)

Correlated ==
    /\ pc = "loop" /\ strategy = "correlated"
    /\ \E ei \in Pick : \E S \in {Here} : \E et \in get_target_edge_Correlated(ei, S) :
        \E r \in {RewireStrategyBase(ei, et, S)} : Apply(ei, r)

Probabilistic ==
    /\ pc = "loop" /\ strategy = "probabilistic"
    /\ \E ei \in Pick : \E S \in {Here} : \E et \in get_target_edge_Probabilistic(ei, S) :
        \E r \in {RewireStrategyBase(ei, et, S)} : Apply(ei, r)

Alias ==
    /\ pc = "loop" /\ strategy = "alias"
    /\ \E ei \in Pick : \E S \in {Here} : \E et \in AliasOutcomes(ei, S) :
        IF et = UBRef THEN Abort(ei)
        ELSE \E r \in {RewireStrategyBase(ei, et, S)} : Apply(ei, r)

TradBlock ==
    /\ pc = "loop" /\ strategy = "trad"
    /\ \E ei \in Pick, st \in TradDraws :
        \E r \in {TradRewire(ei, st, Here)} : Apply(ei, r)

Next ==
    \/ Construct
    \/ ErdosResample
    \/ Erdos
    \/ Random
    \/ Correlated
    \/ Probabilistic
    \/ Alias
    \/ TradBlock

Spec == Init /\ [][Next]_vars

\* a step after which the do-while of 244-252 is left: the position in the
\* permutation, the sweep or the loop itself moves on
Advance == Next /\ (todo' # todo \/ iter' # iter \/ pc' # pc)

\* The calls whose termination is explored: whole sweeps, pcount = 0 at entry, the
\* default strategy arguments, on a single self-loop, on a pair of opposite edges
\* and on the triangle.
Triangle == ToTable(<<<<0, 1>>, <<1, 2>>, <<2, 0>>>>)
LiveGraphs == {ToTable(<<<<0, 0>>>>), ToTable(<<<<0, 1>>, <<1, 0>>>>), Triangle}
LiveInit ==
    /\ Init
    /\ DriverVariety
    /\ niter \in 1 .. MaxIter
    /\ ~no_sweep
    /\ pcount = 0
    /\ edges0 \in LiveGraphs

\* Fair random draws: the program keeps running, and a draw that lets the
\* do-while be left, possible at every turn, is made in the end.
FairSpec == LiveInit /\ [][Next]_vars /\ WF_vars(Next) /\ WF_vars(Advance)


(***************************************************************************)
(* Properties.                                                             *)
(***************************************************************************)
g0 == EdgeBag(nverts, edges0)
DegreePreserving == {"random", "correlated", "probabilistic", "alias"}
Moved == last.success /\ edges # edges0

\* C1: under Random, Correlated, Probabilistic and Alias every vertex has, in every
\* state of the run, the in-degree and the out-degree it has in the input graph
C1_DegreesPreserved ==
    strategy \in DegreePreserving =>
        \A v \in Vertices(nverts) :
            /\ in_degreeS(v, g) = in_degreeS(v, g0)
            /\ out_degree(v, g) = out_degree(v, g0)

\* an accepted swap with a flipped target edge has changed the edges of an undirected graph
C1_Witness ==
    /\ strategy \in DegreePreserving
    /\ ~directed
    /\ Moved
    /\ last.et[2]


\* no two edges of gr are parallel
NoParallel(gr) ==
    \A u, v \in Vertices(nverts) :
        IF directed \/ u = v THEN gr[<<u, v>>] <= 1
        ELSE gr[<<u, v>>] + gr[<<v, u>>] <= 1

\* no edge of gr has equal end points
NoSelfLoop(gr) == \A v \in Vertices(nverts) : gr[<<v, v>>] = 0

\* C2: with parallel_edges = false and an input graph without parallel edges, the
\* graph holds no two parallel edges in any state of the run (all six strategies)
C2_NoParallelEdges == (~parallel_edges /\ NoParallel(g0)) => NoParallel(g)

\* C3: with self_loops = false and an input graph without self-loops, no edge has
\* equal end points in any state of the run (all six strategies)
C3_NoSelfLoops == (~self_loops /\ NoSelfLoop(g0)) => NoSelfLoop(g)

\* a run of that kind has moved an edge and then turned a proposal down for the
\* self-loop it would make
C3_Witness ==
    /\ ~self_loops /\ NoSelfLoop(g0)
    /\ edges # edges0
    /\ last.cause = "self_loop"

\* C4: once the edges are snapshot, the table has the slots 0..m-1 of the input and
\* the graph holds exactly the edges of the table, one per slot
C4_TableIsGraph ==
    pc # "start" => (DOMAIN edges = DOMAIN edges0 /\ g = EdgeBag(nverts, edges))

\* a swap with a flipped target edge has been accepted
C4_Witness == Moved /\ strategy \in DegreePreserving /\ last.et[2]


\* the multiset of the pairs (B(source(e)), B(target(e))) over the edges of a table
PairBag(B(_, _), es, gr) ==
    LET bp(k) == <<B(es[k][1], gr), B(es[k][2], gr)>>
    IN  [x \in {bp(k) : k \in DOMAIN es} |-> Cardinality({k \in DOMAIN es : bp(k) = x})]

\* C5 as claimed: under Correlated the multiset of the block pairs of the edges, for
\* the block abstraction handed to the driver, is the one of the input graph
C5_BlockPairsInvariant ==
    (strategy = "correlated" /\ pc # "start") =>
        PairBag(get_block, edges, g) = PairBag(get_block, edges0, g0)

\* C5 as amended: under Correlated the multiset of the pairs of (in-degree,
\* out-degree) blocks of the edges' end points is the one of the input graph,
\* whichever block abstraction is handed to the driver
C5_DegreePairsInvariant ==
    (strategy = "correlated" /\ pc # "start") =>
        PairBag(DegreeBlock, edges, g) = PairBag(DegreeBlock, edges0, g0)

\* Correlated, handed a PropertyBlock, has accepted a swap that changed the edges
C5_Witness == strategy = "correlated" /\ blockdeg.kind = "PropertyBlock" /\ Moved

\* the slots whose target (source) has block b
InSlots(b) == {k \in DOMAIN edges : get_block(edges[k][2], g) = b}
OutSlots(b) == {k \in DOMAIN edges : get_block(edges[k][1], g) = b}

\* lst holds exactly the slots of S, each once, and pos gives their positions
Bucket(lst, pos, S) ==
    /\ Range(lst) = S
    /\ Len(lst) = Cardinality(S)
    /\ \A k \in S : pos[k] + 1 \in DOMAIN lst /\ lst[pos[k] + 1] = k

EndBlocks == deg_set(edges, g)

\* C6: under Alias, once constructed, in_edges[b] holds exactly the slots whose
\* target has block b, each once, and in_pos their positions
C6_InEdgesExact ==
    (strategy = "alias" /\ pc # "start") =>
        \A b \in EndBlocks \cup DOMAIN _in_edges :
            Bucket(At(_in_edges, b), _in_pos, InSlots(b))

\* C7: under Alias on an undirected graph, once constructed, out_edges[b] holds
\* exactly the slots whose source has block b, each once, and out_pos their positions
C7_OutEdgesExact ==
    (strategy = "alias" /\ ~directed /\ pc # "start") =>
        \A b \in EndBlocks \cup DOMAIN _out_edges :
            Bucket(At(_out_edges, b), _out_pos, OutSlots(b))

\* the edge orientations whose target, in that orientation, has the key b computed
\* at construction
Oriented(b) ==
    {<<k, FALSE>> : k \in {j \in DOMAIN edges : DegreeBlock(edges[j][2], g0) = b}}
        \cup (IF directed THEN {}
              ELSE {<<k, TRUE>> : k \in {j \in DOMAIN edges : DegreeBlock(edges[j][1], g0) = b}})

\* C8: under Correlated, once constructed, each bucket lists exactly the edge
\* orientations whose target in that orientation has the bucket's key, each once
C8_BucketsValid ==
    (strategy = "correlated" /\ pc # "start") =>
        \A b \in {DegreeBlock(v, g0) : v \in Vertices(nverts)} \cup DOMAIN _edges_by_target :
            /\ Range(At(_edges_by_target, b)) = Oriented(b)
            /\ Len(At(_edges_by_target, b)) = Cardinality(Oriented(b))

\* Correlated has accepted a swap with a flipped target edge on an undirected graph
C8_Witness == strategy = "correlated" /\ ~directed /\ Moved /\ last.et[2]


\* C9: with persist = false the driver runs the requested sweeps to completion,
\* whatever the strategy, the graph and the flags (under fair draws)
C9_Terminates == ~persist => <>(pc = "done")

\* the call of C10: the directed triangle, Random, one sweep, no self-loops, no
\* parallel edges, persistence
TriangleCall ==
    /\ directed /\ nverts = 3 /\ edges0 = Triangle
    /\ strategy = "random" /\ niter = 1 /\ ~no_sweep
    /\ ~self_loops /\ ~parallel_edges /\ persist

AllDegreesOne ==
    \A v \in Vertices(nverts) : in_degreeS(v, g) = 1 /\ out_degree(v, g) = 1

\* C10 as claimed: the call on the triangle completes, and then pcount = 0 and
\* every vertex has in-degree 1 and out-degree 1
C10_TriangleCompletes ==
    TriangleCall => <>(pc = "done" /\ pcount = 0 /\ AllDegreesOne)

\* C10 as amended: the call on the triangle never completes; once the loop is
\* entered the driver stays in it, every proposal is turned down, the edges are
\* those of the input, pcount = 0 and every vertex has in-degree 1 and out-degree 1
C10_TriangleNeverCompletes ==
    (TriangleCall /\ pc # "start") =>
        /\ pc = "loop"
        /\ ~last.success
        /\ edges = edges0
        /\ pcount = 0
        /\ AllDegreesOne

\* on the triangle a proposal has been turned down for the self-loop it would make,
\* and the driver tries the same edge again
C10_Witness == TriangleCall /\ last.cause = "self_loop" /\ cur = last.ei


m == Cardinality(DOMAIN edges0)

\* C11: a run with persist = true on m >= 1 edges that completes ends with
\* pcount = 0 and with n_iter accepted moves under no_sweep, n_iter * m otherwise
C11_PersistMoves ==
    (persist /\ m >= 1 /\ pc = "done") =>
        /\ pcount = 0
        /\ moves = IF no_sweep THEN niter ELSE niter * m

\* a run with persistence has completed whole sweeps after retrying a failed proposal
C11_Witness ==
    persist /\ pc = "done" /\ ~no_sweep /\ niter >= 1 /\ m >= 2 /\ fails >= 1

\* C12: with persist = false, at completion pcount is the number of invocations of
\* this call that returned false, whatever pcount held at entry
C12_PcountIsFailures == (~persist /\ pc = "done") => pcount = fails

\* a run without persistence has completed with failed and with accepted proposals
C12_Witness == ~persist /\ pc = "done" /\ fails >= 1 /\ moves >= 1

\* C13: with no_sweep = true, persist = false and m >= 1 the driver makes one
\* invocation per iteration: n_iter of them at completion
C13_NoSweepCalls ==
    (no_sweep /\ ~persist /\ m >= 1 /\ pc \in {"loop", "done"}) =>
        /\ calls = iter
        /\ pc = "done" => calls = niter

\* a no_sweep run on several edges has completed its iterations
C13_Witness == no_sweep /\ ~persist /\ m >= 2 /\ niter >= 1 /\ pc = "done" /\ calls = niter

\* C14: with no_sweep = false every slot is visited once in each sweep: in sweep
\* number iter a slot has been visited iter or iter + 1 times, at completion n_iter
\* times; with persist = false that is n_iter * m invocations
C14_Sweeps ==
    ~no_sweep =>
        /\ pc = "loop" => \A k \in DOMAIN edges0 : visits[k] \in {iter, iter + 1}
        /\ pc = "done" =>
            /\ \A k \in DOMAIN edges0 : visits[k] = niter
            /\ ~persist => calls = niter * m

\* a run of whole sweeps over three edges has completed
C14_Witness == ~no_sweep /\ ~persist /\ m >= 3 /\ niter >= 1 /\ pc = "done"


\* C15: with n_iter = 0 the driver returns at once, whatever the strategy, the graph
\* and the flags: no invocation, the graph and every slot as in the input, pcount = 0
C15_ZeroIterations ==
    (niter = 0 /\ pc # "start") =>
        /\ pc = "done"
        /\ calls = 0
        /\ edges = edges0
        /\ g = g0
        /\ pcount = 0

\* the Alias strategy has been constructed on a graph with edges and the driver
\* has returned from a call with n_iter = 0
C15_Witness ==
    niter = 0 /\ pc = "done" /\ m >= 2 /\ strategy = "alias" /\ DOMAIN _in_edges # {}

\* C16: on a graph without edges the driver returns at once, whatever the strategy,
\* n_iter and the options: no invocation, the graph unchanged, pcount = 0
C16_NoEdges ==
    m = 0 =>
        /\ pc = "start" => ENABLED Construct
        /\ pc # "start" =>
            /\ pc = "done"
            /\ calls = 0
            /\ last = NoLast
            /\ g = g0
            /\ pcount = 0

\* a call with persistence and n_iter >= 1 on a graph without edges has returned
C16_Witness == m = 0 /\ persist /\ niter >= 1 /\ pc = "done"


\* C17: on a graph with one edge Random, Correlated, Probabilistic and Alias turn
\* every proposal down as a self-swap (the target edge is the edge itself): every
\* invocation returns false, the graph never changes and, with persist = false,
\* pcount = n_iter at completion
C17_OneEdge ==
    (m = 1 /\ strategy \in DegreePreserving /\ pc # "start") =>
        /\ pc # "aborted"
        /\ last # NoLast => (~last.success /\ last.et[1] = last.ei)
        /\ edges = edges0 /\ g = g0
        /\ (~persist /\ pc = "done") => pcount = niter


\* gr is a complete simple graph: one edge between any two distinct vertices (one
\* in each direction when directed) and no self-loop
Complete(gr) ==
    \A u, v \in Vertices(nverts) :
        IF u = v THEN gr[<<u, v>>] = 0
        ELSE IF directed THEN gr[<<u, v>>] = 1
        ELSE gr[<<u, v>>] + gr[<<v, u>>] = 1

CompleteCall ==
    /\ nverts >= 2 /\ Complete(g0)
    /\ strategy = "random" /\ ~parallel_edges /\ ~self_loops

\* C18: on a complete simple graph with at least two vertices, with
\* parallel_edges = false and self_loops = false, Random turns every proposal down
\* and the graph never changes; with persist = true and n_iter >= 1 the driver
\* stays in its loop and never completes
C18_CompleteGraph ==
    (CompleteCall /\ pc # "start") =>
        /\ ~last.success /\ moves = 0
        /\ edges = edges0 /\ g = g0
        /\ (persist /\ niter >= 1) => pc = "loop"

\* on the undirected triangle, under persistence, a proposal with a flipped target
\* edge has been turned down for the parallel edge it would make
C18_Witness ==
    /\ CompleteCall /\ ~directed /\ nverts = 3 /\ persist
    /\ last.cause = "parallel" /\ last.et[2] /\ fails >= 2


\* what the invocations for slot ei can end with, given the target edges ets that
\* get_target_edge can return: the edge table and the result
Outcomes(ei, ets) ==
    {[edges |-> r.edges, success |-> r.success] :
        r \in {RewireStrategyBase(ei, et, Here) : et \in ets}}

\* C19: with corr_prob = 1 for every block pair, get_target_edge of Probabilistic
\* returns the candidate it sampled, whatever the candidate, and the outcomes of a
\* proposal are those of Random, in every state, for every slot
C19_ConstantIsRandom ==
    (strategy = "probabilistic" /\ corr_prob = "one" /\ pc = "loop") =>
        \A ei \in DOMAIN edges :
            /\ \A epi \in DOMAIN edges, f \in Coins :
                   Accept(ei, <<epi, f>>, Here) = {<<epi, f>>}
            /\ Outcomes(ei, get_target_edge_Probabilistic(ei, Here))
                   = Outcomes(ei, get_target_edge_Random(ei, Here))

\* Probabilistic with the constant functor and cached probabilities has accepted a
\* swap that changed the edges, and goes on
C19_Witness ==
    strategy = "probabilistic" /\ corr_prob = "one" /\ cache /\ Moved /\ pc = "loop"


\* the probability floor stands for values that are NaN, infinite, negative or zero
Floored(floor, p) == IF p.k \in {"nan", "inf", "neg", "zero"} THEN floor ELSE p

\* the probabilities the strategies use are those of corr_prob with floor in place
\* of NaN, infinite, negative and zero values (Probabilistic, Alias), and with 0 in
\* place of NaN, infinite and negative values (TradBlock)
ProbsFloored(floor) ==
    /\ (strategy \in {"probabilistic", "alias"} /\ pc # "start") =>
        \A bs, bt \in deg_set(edges, g) :
            /\ get_prob(bs, bt).k = "pos"
            /\ get_prob(bs, bt) = Floored(floor, CorrProb(bs, bt))
            /\ strategy = "alias" => _sampler[bs][bt] = get_prob(bs, bt)
    /\ (strategy = "trad" /\ pc # "start") =>
        \A bp \in DOMAIN _sampler :
            _sampler[bp] = LET p == CorrProb(bp[1], bp[2])
                           IN  IF p.k \in {"nan", "inf", "neg"} THEN Zero ELSE p

\* C20 as claimed: the floor is the smallest positive representable double
C20_FloorIsSmallestPositive == ProbsFloored(denorm_min)

\* C20 as amended: the floor is numeric_limits<double>::min(), the smallest positive
\* normalized double; a positive subnormal value is used unchanged, below the floor
C20_FloorIsMinNormal == ProbsFloored(min_double)

\* a strategy given a functor that returns an infinite value and a positive
\* subnormal has accepted a move
C20_Witness ==
    /\ corr_prob = "inf_tiny" /\ strategy \in {"probabilistic", "alias", "trad"}
    /\ Cardinality(deg_set(edges, g)) >= 2
    /\ last.success


\* the target edges get_target_edge of the strategy can return for slot ei in S
Targets(ei, S) ==
    CASE strategy = "random" -> get_target_edge_Random(ei, S)
      [] strategy = "correlated" -> get_target_edge_Correlated(ei, S)
      [] strategy = "probabilistic" -> get_target_edge_Probabilistic(ei, S)
      [] strategy = "alias" -> AliasOutcomes(ei, S) \ {UBRef}
      [] OTHER -> {}

\* what the accepted proposals for slot ei lead to from S
AcceptedFrom(ei, S) ==
    {r \in {RewireStrategyBase(ei, et, S) : et \in Targets(ei, S)} : r.success}

\* some accepted proposal leads from Y to a state that Same(_, _) holds of with X
CanReturn(Y, X, Same(_, _)) ==
    \E ej \in DOMAIN Y.edges : \E r \in AcceptedFrom(ej, Y) : Same(r, X)

SameTable(A, B) == A.edges = B.edges
SameGraph(A, B) == A.g = B.g

\* C27: under Random and Probabilistic an accepted proposal that takes the edge
\* table X to Y can be undone: some proposal can be accepted in Y that takes the
\* table back to X
C27_Reversible ==
    (strategy \in {"random", "probabilistic"} /\ pc = "loop") =>
        \A ei \in DOMAIN edges : \A Y \in AcceptedFrom(ei, Here) :
            CanReturn(Y, Here, SameTable)


\* C21: under Probabilistic and Alias the chain of graph states satisfies detailed
\* balance, pi(X) P(X -> Y) = pi(Y) P(Y -> X), with respect to pi, the product of
\* the p of the edges.  Every p is positive (C20), so pi is positive on every
\* graph and detailed balance requires P(Y -> X) > 0 whenever P(X -> Y) > 0: a
\* move that can be accepted from the graph X to a graph Y can be undone by a
\* move that can be accepted from Y.
C21_DetailedBalance ==
    (strategy \in {"probabilistic", "alias"} /\ pc = "loop") =>
        \A ei \in DOMAIN edges : \A Y \in AcceptedFrom(ei, Here) :
            CanReturn(Y, Here, SameGraph)


\* the two disjoint directed edges 0->1, 2->3 handed to Random
TwoDisjoint ==
    strategy = "random" /\ directed /\ nverts = 4 /\ edges0 = ToTable(<< <<0, 1>>, <<2, 3>> >>)

\* C22: in every state of a run and for every slot e and every target edge te,
\* swap_target(e, te) with e # te.first leaves (s, t') in slot e, and in slot
\* te.first (s', t) when te is not flipped and (t, s') when it is, and leaves every
\* other slot as it was; with e = te.first it changes neither table nor graph.  After
\* one accepted Random move on the directed edges 0->1, 2->3 the graph is 0->3, 2->1.
C22_SwapTargetSlots ==
    /\ pc # "start" =>
          \A e \in DOMAIN edges : \A te \in (DOMAIN edges) \X Coins :
              LET r == swap_target(e, te, edges, g)
                  s == edges[e][1]
                  t == edges[e][2]
                  s2 == source(te, edges)
                  t2 == target(te, edges)
              IN  IF e = te[1] THEN r.edges = edges /\ r.g = g
                  ELSE /\ DOMAIN r.edges = DOMAIN edges
                       /\ r.edges[e] = <<s, t2>>
                       /\ r.edges[te[1]] = (IF te[2] THEN <<t, s2>> ELSE <<s2, t>>)
                       /\ \A k \in DOMAIN edges \ {e, te[1]} : r.edges[k] = edges[k]
    /\ (TwoDisjoint /\ moves = 1) =>
          /\ edges = ToTable(<< <<0, 3>>, <<2, 1>> >>)
          /\ g = EdgeBag(nverts, edges)

\* Random has made its one accepted move on the directed edges 0->1, 2->3
C22_Witness == TwoDisjoint /\ moves = 1 /\ last.success /\ last.cause = "swap"


\* C23: under Traditional every accepted proposal stores in slot ei an edge (s, t)
\* such that, for a block pair (bs, bt) the sampler can return and the draw of 898-907
\* can have made, s has the block bs and t the block bt in the graph as it is when
\* the proposal is made
C23_TradBlocksCurrent ==
    [][(strategy = "trad" /\ moves' = moves + 1) =>
          /\ edges'[last'.ei] = last'.et
          /\ \E deg \in sample(_sampler) :
                /\ last'.et[1] \in Range(_vertices[deg[1]])
                /\ last'.et[2] \in Range(_vertices[deg[2]])
                /\ get_block(last'.et[1], g) = deg[1]
                /\ get_block(last'.et[2], g) = deg[2]]_vars


\* C24: under Alias, whenever a proposal can be made, for every slot ei and every
\* block nt the sampler of the source block of ei can return, the bucket the candidate
\* is drawn from is not empty (in_edges[nt] on a directed graph; on an undirected one
\* in_edges[nt] and out_edges[nt] are not both empty and the one chosen is not
\* empty), and every candidate is a slot of the edge table
C24_BucketNonEmpty ==
    (strategy = "alias" /\ pc = "loop") =>
        \A ei \in DOMAIN edges :
            LET s_deg == get_block(edges[ei][1], g)
            IN  s_deg \in DOMAIN _sampler =>
                    \A nt \in sample(_sampler[s_deg]) :
                        /\ IF directed THEN Len(At(_in_edges, nt)) > 0
                           ELSE Len(At(_in_edges, nt)) + Len(At(_out_edges, nt)) > 0
                        /\ \A ep \in AliasCandidates(nt, Here) :
                               ep # UBRef /\ ep[1] \in DOMAIN edges


\* two bucket maps hold the same slots, in the same order, under every block
SameBuckets(a, b) == \A d \in (DOMAIN a) \cup (DOMAIN b) : At(a, d) = At(b, d)

\* C25: a proposal that returns false (a self-loop, a parallel edge, a Metropolis
\* rejection, a self-swap; a new draw of Erdos) leaves the graph and the edge table
\* as they were, under each of the six strategies, and under Alias the contents of
\* in_edges, out_edges, in_pos and out_pos as well
C25_RejectionChangesNothing ==
    [][(pc = "loop" /\ ~last'.success /\ last'.cause # "ub") =>
          /\ edges' = edges
          /\ g' = g
          /\ SameBuckets(_in_edges', _in_edges)
          /\ SameBuckets(_out_edges', _out_edges)
          /\ _in_pos' = _in_pos
          /\ _out_pos' = _out_pos]_vars

\* Alias has turned a proposal down on an undirected graph after it accepted one
C25_Witness ==
    /\ strategy = "alias" /\ ~directed /\ moves >= 1
    /\ ~last.success /\ last.cause \in {"self_loop", "parallel", "self_swap"}


\* the strategy reads its probabilities from the table built at construction
Cached == (strategy = "probabilistic" /\ cache) \/ strategy = "alias"

\* C26: under Probabilistic with cache = true and under Alias the blocks at the
\* endpoints of the edges are, in every state of the run, among those enumerated at
\* construction; every pair of them, hence every pair get_prob is called with, is a
\* key of _probs, and what get_prob returns for it is what the uncached computation
\* returns; under Alias every block of a source has a sampler
C26_CachedLookups ==
    (Cached /\ pc # "start") =>
        /\ deg_set(edges, g) \subseteq deg_set(edges0, g0)
        /\ \A bs \in deg_set(edges, g) : \A bt \in deg_set(edges, g) :
              /\ <<bs, bt>> \in DOMAIN _probs
              /\ get_prob(bs, bt) = Sanitize(CorrProb(bs, bt))
        /\ strategy = "alias" =>
              \A k \in DOMAIN edges : get_block(edges[k][1], g) \in DOMAIN _sampler

\* Probabilistic with cache = true has accepted a proposal on a graph whose edges
\* have endpoints in two blocks or more
C26_Witness ==
    /\ strategy = "probabilistic" /\ cache /\ Moved
    /\ Cardinality(deg_set(edges, g)) >= 2
====
